---------------------------- MODULE Spec2Model ----------------------------
(***************************************************************************)
(* Model of dbt/adapters/glue/impl.py (GlueAdapter): the schema lifecycle  *)
(* operations and the write entry points, driven by one caller against a   *)
(* Glue catalog holding the schemas and one target relation.               *)
(*                                                                         *)
(* The caller invokes an adapter method, which runs as one step (the       *)
(* action named after it, its arguments in call, its outcome in ret), and  *)
(* then takes the outcome (Return).  The catalog service and the Spark     *)
(* engine are the                                                          *)
(* environment: every call to them can fail (call.fault), and what the     *)
(* engine does with a submitted script is modelled statement by statement. *)
(***************************************************************************)
EXTENDS Bags, FiniteSets, Integers, Sequences, TLC

VARIABLES databases, grants, table, commits, pc, call, ret, before

vars == <<databases, grants, table, commits, pc, call, ret, before>>

\* ------------------------------------------------------------------ bounds
\* Number of data writes ever committed to the target relation.
MaxCommits == 2

Schemas == {"analytics"}
TargetSchema == "analytics"
Keys == {1, 2}
Vals == {"a", "b"}
RowCounts == 0..2

\* -------------------------------------------------------------- data frames
\* A data frame is a bag of rows; a row is a function from column names.
RECURSIVE SumCounts(_, _)
SumCounts(B, S) ==
    IF S = {} THEN 0
    ELSE LET r == CHOOSE x \in S : TRUE IN B[r] + SumCounts(B, S \ {r})

\* The rows f[r] of the rows r of B, each as often as its sources.
BagImage(f, B) ==
    [y \in {f[r] : r \in DOMAIN B} |->
        SumCounts(B, {r \in DOMAIN B : f[r] = y})]

\* The rows of B that are in S.
BagFilter(S, B) == [r \in S \cap DOMAIN B |-> B[r]]

count(df) == BagCardinality(df)

\* DataFrame.drop(col): a column the frame does not have is ignored.
drop(df, col) ==
    BagImage([r \in DOMAIN df |-> [c \in DOMAIN r \ {col} |-> r[c]]], df)

\* DataFrame.withColumn(col, val)
withColumn(df, col, val) ==
    BagImage([r \in DOMAIN df |-> [c \in DOMAIN r \cup {col} |->
                                      IF c = col THEN val ELSE r[c]]], df)

RECURSIVE SeqToBag(_)
SeqToBag(s) ==
    IF s = <<>> THEN EmptyBag ELSE SetToBag({Head(s)}) (+) SeqToBag(Tail(s))

\* The result sets a request can produce: the rows carry the model's columns
\* and dbt's unique-key column.
SourceRow == {[id |-> k, v |-> x, dbt_unique_key |-> k] : k \in Keys, x \in Vals}

Requests ==
    UNION {{SeqToBag(s) : s \in [1..n -> SourceRow]} : n \in RowCounts}

\* ------------------------------------------------------------ Glue catalog
\* The target relation: its catalog entry (present), the format and the rows
\* of the data at its location, the Iceberg snapshots (commit ticks), and
\* for a Delta table the manifest (up to date or not) and the catalog entry
\* of the manifest-based table.
Absent == [present |-> FALSE, provider |-> "none", rows |-> EmptyBag,
           snapshots |-> {}, manifest |-> FALSE, athena |-> FALSE]

\* The text of Parameters.table_type, character by character.
ICEBERG == <<"I", "C", "E", "B", "E", "R", "G">>

\* client.get_table: the descriptor of the target relation, or not found.
\* Iceberg's catalog registers its tables with table_type ICEBERG.
get_table(tbl) ==
    IF ~tbl.present THEN [found |-> FALSE]
    ELSE [found |-> TRUE,
          TableType |-> "EXTERNAL_TABLE",
          table_type |-> IF tbl.provider = "iceberg" THEN ICEBERG ELSE <<>>]

relation_type_map(raw) ==
    CASE raw \in {"EXTERNAL_TABLE", "MANAGED_TABLE", "table"} -> "table"
      [] raw \in {"VIRTUAL_VIEW", "view"} -> "view"
      [] raw = "cte" -> "cte"
      [] raw = "materializedview" -> "materializedview"
      [] OTHER -> "None"

\* get_relation: the Relation, or None when the table is not found or the
\* catalog call fails (both are logged).
get_relation(tbl, catalogFails) ==
    IF catalogFails THEN "None"
    ELSE LET response == get_table(tbl) IN
         IF ~response.found THEN "None"
         ELSE relation_type_map(response.TableType)

check_relation_exists(tbl, catalogFails) ==
    IF get_relation(tbl, catalogFails) = "None" THEN "False" ELSE "True"

\* str.lower() on the letters that occur
lower_char(c) ==
    CASE c = "I" -> "i" [] c = "C" -> "c" [] c = "E" -> "e" [] c = "B" -> "b"
      [] c = "R" -> "r" [] c = "G" -> "g" [] c = "H" -> "h" [] c = "V" -> "v"
      [] OTHER -> c

lower(text) == [i \in DOMAIN text |-> lower_char(text[i])]

\* response.get("Table", {}).get("TableType", "Table")
TableType(response) ==
    IF response.TableType = "missing" THEN "Table" ELSE response.TableType

\* A get_table_type that compares table_type as it is written.
get_table_type_case_sensitive(response, catalogFails) ==
    IF catalogFails THEN [outcome |-> "raised", result |-> "none"]
    ELSE IF ~response.found THEN [outcome |-> "returned", result |-> "None"]
    ELSE IF response.table_type = <<"i", "c", "e", "b", "e", "r", "g">>
         THEN [outcome |-> "returned", result |-> "iceberg_table"]
    ELSE [outcome |-> "returned",
          result |-> relation_type_map(TableType(response))]

\* A get_table_type that returns on a raw type it does not know.
get_table_type_raw_first(response, catalogFails) ==
    IF catalogFails THEN [outcome |-> "raised", result |-> "none"]
    ELSE IF ~response.found THEN [outcome |-> "returned", result |-> "None"]
    ELSE IF relation_type_map(TableType(response)) = "None"
         THEN [outcome |-> "returned", result |-> "None"]
    ELSE IF lower(response.table_type) = <<"i", "c", "e", "b", "e", "r", "g">>
         THEN [outcome |-> "returned", result |-> "iceberg_table"]
    ELSE [outcome |-> "returned",
          result |-> relation_type_map(TableType(response))]

\* get_table_type: an exception of client.get_table other than not found
\* leaves the method; not found leaves response unbound, and the
\* UnboundLocalError of the second try block returns None; a type of None
\* fails the concatenation of the log line, which returns None as well.
get_table_type(response, catalogFails) ==
    IF catalogFails THEN [outcome |-> "raised", result |-> "none"]
    ELSE IF ~response.found THEN [outcome |-> "returned", result |-> "None"]
    ELSE IF lower(response.table_type) = <<"i", "c", "e", "b", "e", "r", "g">>
         THEN [outcome |-> "returned", result |-> "iceberg_table"]
    ELSE [outcome |-> "returned",
          result |-> relation_type_map(TableType(response))]

\* list_schemas: client.get_databases
list_schemas(dbs) == dbs

\* check_schema_exists: None when listing raises.
check_schema_exists(dbs, schema, catalogFails) ==
    IF catalogFails THEN "None"
    ELSE IF schema \in list_schemas(dbs) THEN "True" ELSE "False"

Idle == [op |-> "none"]

Init ==
    /\ databases = {}
    /\ grants = {}
    /\ table = Absent
    /\ commits = 0
    /\ pc = "idle"
    /\ call = Idle
    /\ ret = Idle
    /\ before = Idle

Snapshot == [databases |-> databases, grants |-> grants, table |-> table]

\* The caller takes the outcome of the call.
Return ==
    /\ pc = "returned"
    /\ pc' = "idle"
    /\ call' = Idle
    /\ ret' = Idle
    /\ before' = Idle
    /\ UNCHANGED <<databases, grants, table, commits>>

\* --------------------------------------------------------- schema lifecycle
\* Where the one failing service call of a create_schema call is: the STS
\* identity lookup, the database listing, create_database or the grant.
SchemaFaults == {"none", "sts", "list", "create", "grant"}

\* The try block of create_schema: create_database, then the grants; any
\* exception (AlreadyExistsException included) is logged.  issued: the
\* requests the catalog carried out.
create_schema_try(dbs, gr, schema, fault) ==
    IF fault = "create" \/ schema \in dbs
    THEN [databases |-> dbs, grants |-> gr, issued |-> {}]
    ELSE IF fault = "grant"
    THEN [databases |-> dbs \cup {schema}, grants |-> gr,
          issued |-> {"create_database"}]
    ELSE [databases |-> dbs \cup {schema}, grants |-> gr \cup {schema},
          issued |-> {"create_database", "batch_grant_permissions"}]

\* A create_schema that does not look whether the schema exists and grants
\* after the try block.
create_schema_body_regrant(dbs, gr, schema, fault) ==
    IF fault = "sts"
    THEN [databases |-> dbs, grants |-> gr, issued |-> {},
          outcome |-> "raised"]
    ELSE [databases |-> dbs \cup {schema}, grants |-> gr \cup {schema},
          issued |-> {"batch_grant_permissions"}, outcome |-> "returned"]

\* get_caller_identity is called outside the try block: its failure is
\* raised to the caller.
create_schema_body(dbs, gr, schema, fault) ==
    IF fault = "sts"
    THEN [databases |-> dbs, grants |-> gr, issued |-> {},
          outcome |-> "raised"]
    ELSE IF check_schema_exists(dbs, schema, fault = "list") = "True"
    THEN [databases |-> dbs, grants |-> gr, issued |-> {},
          outcome |-> "returned"]
    ELSE LET r == create_schema_try(dbs, gr, schema, fault) IN
         [databases |-> r.databases, grants |-> r.grants,
          issued |-> r.issued, outcome |-> "returned"]

create_schema ==
    /\ pc = "idle"
    /\ \E s \in Schemas, f \in SchemaFaults :
         LET r == create_schema_body(databases, grants, s, f) IN
           /\ call' = [op |-> "create_schema", schema |-> s, fault |-> f]
           /\ databases' = r.databases
           /\ grants' = r.grants
           /\ ret' = [outcome |-> r.outcome,
                      tag |-> IF r.outcome = "raised" THEN "ClientError"
                              ELSE "none",
                      issued |-> r.issued]
    /\ before' = Snapshot
    /\ pc' = "returned"
    /\ UNCHANGED <<table, commits>>

check_schema_exists_call ==
    /\ pc = "idle"
    /\ \E s \in Schemas, f \in {"none", "list"} :
         /\ call' = [op |-> "check_schema_exists", schema |-> s, fault |-> f]
         /\ ret' = [outcome |-> "returned", tag |-> "none",
                    result |-> check_schema_exists(databases, s, f = "list")]
    /\ before' = Snapshot
    /\ pc' = "returned"
    /\ UNCHANGED <<databases, grants, table, commits>>

\* client.delete_database: the catalog drops the tables of the database with
\* it; what a Delta table has in storage stays there.
delete_database(tbl) ==
    IF tbl.provider = "delta"
    THEN [tbl EXCEPT !.present = FALSE, !.athena = FALSE]
    ELSE Absent

DropFaults == {"none", "list", "delete", "debug"}

\* A drop_schema that releases the connections only when the delete went
\* through.
drop_schema_body_leak(dbs, schema, fault) ==
    IF check_schema_exists(dbs, schema, fault = "list") # "True"
    THEN [deleted |-> FALSE, issued |-> <<>>, result |-> "None"]
    ELSE IF fault = "delete"
    THEN [deleted |-> FALSE, issued |-> <<"delete_database">>,
          result |-> "None"]
    ELSE [deleted |-> TRUE, issued |-> <<"delete_database", "cleanup_all">>,
          result |-> IF fault = "debug" THEN "None" ELSE "True"]

\* drop_schema: what it asks for, in order.  The try block deletes, logs and
\* releases the connections; when the delete or the log line raises, the
\* except clause releases them.  A schema check_schema_exists does not report
\* is only logged.
drop_schema_body(dbs, schema, fault) ==
    IF check_schema_exists(dbs, schema, fault = "list") # "True"
    THEN [deleted |-> FALSE, issued |-> <<>>, result |-> "None"]
    ELSE [deleted |-> fault # "delete",
          issued |-> <<"delete_database", "cleanup_all">>,
          result |-> IF fault \in {"delete", "debug"} THEN "None"
                     ELSE "True"]

drop_schema ==
    /\ pc = "idle"
    /\ \E s \in Schemas, f \in DropFaults :
         /\ call' = [op |-> "drop_schema", schema |-> s, fault |-> f]
         /\ ret' = [outcome |-> "returned", tag |-> "none"]
                      @@ drop_schema_body(databases, s, f)
         /\ IF drop_schema_body(databases, s, f).deleted
            THEN /\ databases' = databases \ {s}
                 /\ grants' = grants \ {s}
                 /\ table' = delete_database(table)
            ELSE UNCHANGED <<databases, grants, table>>
    /\ before' = Snapshot
    /\ pc' = "returned"
    /\ UNCHANGED commits

\* client.get_tables(DatabaseName=schema): the tables of the schema, the
\* target relation and, of a Delta table, the table made for Athena.  A
\* schema the catalog does not have is an exception of the client.
get_tables(dbs, tbl, schema) ==
    IF schema \notin dbs THEN [raised |-> TRUE, TableList |-> <<>>]
    ELSE [raised |-> FALSE,
          TableList |->
             (IF tbl.present
              THEN <<[Name |-> "target", TableType |-> "EXTERNAL_TABLE"]>>
              ELSE <<>>)
             \o (IF tbl.athena
                 THEN <<[Name |-> "athena_target",
                         TableType |-> "EXTERNAL_TABLE"]>>
                 ELSE <<>>)]

\* relations.append(self.Relation.create(...)) for each table of the list
Relations(TableList) ==
    [i \in DOMAIN TableList |->
        [identifier |-> TableList[i].Name,
         type |-> relation_type_map(TableList[i].TableType)]]

\* list_relations_without_caching: the relations of the schema; an exception
\* of the catalog call is logged and the method ends without a return value
\* (none: the result is None).
list_relations_without_caching(dbs, tbl, schema, catalogFails) ==
    IF catalogFails \/ get_tables(dbs, tbl, schema).raised
    THEN [none |-> TRUE, relations |-> <<>>]
    ELSE [none |-> FALSE,
          relations |-> Relations(get_tables(dbs, tbl, schema).TableList)]

\* _get_one_catalog: `for relation_row in results` over the listing, a row
\* for each relation; iterating None is a TypeError.
get_one_catalog_body(results) ==
    IF results.none
    THEN [outcome |-> "raised", tag |-> "TypeError",
          listing |-> [none |-> TRUE, relations |-> <<>>]]
    ELSE [outcome |-> "returned", tag |-> "none",
          listing |-> [none |-> FALSE,
                       relations |->
                          [i \in DOMAIN results.relations |->
                             [table_schema |-> TargetSchema,
                              table_name |-> results.relations[i].identifier,
                              table_type |-> results.relations[i].type]]]]

ReadFaults == {"none", "catalog"}

check_relation_exists_call ==
    /\ pc = "idle"
    /\ \E f \in ReadFaults :
         /\ call' = [op |-> "check_relation_exists", fault |-> f]
         /\ ret' = [outcome |-> "returned", tag |-> "none",
                    result |-> check_relation_exists(table, f = "catalog")]
    /\ before' = Snapshot
    /\ pc' = "returned"
    /\ UNCHANGED <<databases, grants, table, commits>>

list_relations_without_caching_call ==
    /\ pc = "idle"
    /\ \E s \in Schemas, f \in ReadFaults :
         /\ call' = [op |-> "list_relations_without_caching", schema |-> s,
                     fault |-> f]
         /\ ret' = [outcome |-> "returned", tag |-> "none",
                    listing |-> list_relations_without_caching(
                                   databases, table, s, f = "catalog")]
    /\ before' = Snapshot
    /\ pc' = "returned"
    /\ UNCHANGED <<databases, grants, table, commits>>

get_one_catalog ==
    /\ pc = "idle"
    /\ \E s \in Schemas, f \in ReadFaults :
         /\ call' = [op |-> "_get_one_catalog", schema |-> s, fault |-> f]
         /\ ret' = get_one_catalog_body(
                      list_relations_without_caching(databases, table, s,
                                                     f = "catalog"))
    /\ before' = Snapshot
    /\ pc' = "returned"
    /\ UNCHANGED <<databases, grants, table, commits>>

\* get_relation and get_table_type of the target relation
get_relation_call ==
    /\ pc = "idle"
    /\ \E f \in {"none", "catalog"} :
         /\ call' = [op |-> "get_relation", fault |-> f]
         /\ ret' = [outcome |-> "returned", tag |-> "none",
                    result |-> get_relation(table, f = "catalog")]
    /\ before' = Snapshot
    /\ pc' = "returned"
    /\ UNCHANGED <<databases, grants, table, commits>>

get_table_type_call ==
    /\ pc = "idle"
    /\ \E f \in {"none", "catalog"} :
         /\ call' = [op |-> "get_table_type", fault |-> f,
                     response |-> get_table(table)]
         /\ ret' = get_table_type(get_table(table), f = "catalog")
    /\ before' = Snapshot
    /\ pc' = "returned"
    /\ UNCHANGED <<databases, grants, table, commits>>

\* ----------------------------------------------------------- Spark engine
\* What the engine does with the statements the adapter's scripts hold.  The
\* glue_catalog catalog is Iceberg's: it loads Iceberg tables only.
IsIceberg(tbl) == tbl.present /\ tbl.provider = "iceberg"

Failed(tbl) == [ok |-> FALSE, table |-> tbl]
Done(tbl) == [ok |-> TRUE, table |-> tbl]

Commit(tbl, rows, tick) ==
    [tbl EXCEPT !.present = TRUE, !.provider = "iceberg", !.rows = rows,
                !.snapshots = @ \cup {tick}, !.manifest = FALSE]

\* ON t.f1 = s.f1 AND t.f2 = s.f2 ...
Matches(on, t, s) == \A i \in 1..Len(on) : t[on[i]] = s[on[i]]

\* MERGE INTO t USING s ON ... WHEN MATCHED THEN UPDATE SET *
\* WHEN NOT MATCHED THEN INSERT *.  A target row matched by more than one
\* source row is an error of the statement.
MergeRows(on, target, source) ==
    LET src(t) == {s \in DOMAIN source : Matches(on, t, s)}
        updated == BagImage([t \in DOMAIN target |->
                                IF src(t) = {} THEN t
                                ELSE CHOOSE s \in src(t) : TRUE], target)
        inserted == BagFilter({s \in DOMAIN source :
                                 \A t \in DOMAIN target : ~Matches(on, t, s)},
                              source)
    IN updated (+) inserted

MergeAmbiguous(on, target, source) ==
    \E t \in DOMAIN target :
        SumCounts(source, {s \in DOMAIN source : Matches(on, t, s)}) > 1

\* outputDf.write.format('org.apache.hudi').mode(...).save(path): Overwrite
\* with bulk_insert writes the rows as they are; Append with upsert keeps one
\* row per record key, the incoming one where there is one.  Of incoming rows
\* with one key and one precombine value, the engine keeps either (keep).
HudiSave(stmt, tbl, tmp) ==
    IF stmt.mode = "Overwrite" THEN tmp
    ELSE LET key == stmt.recordkey
             keys == {r[key] : r \in DOMAIN tmp}
             best(k) == LET c == {r \in DOMAIN tmp : r[key] = k} IN
                        IF \E r \in c : r.v = stmt.keep
                        THEN CHOOSE r \in c : r.v = stmt.keep
                        ELSE CHOOSE r \in c : TRUE
         IN BagFilter({r \in DOMAIN tbl.rows : r[key] \notin keys}, tbl.rows)
            (+) SetToBag({best(k) : k \in keys})

\* The commit time of the snapshot committed at a tick: seconds and
\* microseconds, two ticks to the second.
committed_at(tick) ==
    [s |-> (tick + 1) \div 2, us |-> ((tick + 1) % 2) * 500000]

Older(a, b) == a.s < b.s \/ (a.s = b.s /\ a.us < b.us)

\* str(datetime): "... HH:MM:SS", followed by ".ffffff" unless the
\* microseconds are 0.  The text is the sequence of its fields.
str(dt) == IF dt.us = 0 THEN <<dt.s>> ELSE <<dt.s, dt.us>>

\* The timestamp literal timestamp '...' read back by the engine.
timestamp(text) ==
    [s |-> text[1], us |-> IF Len(text) > 1 THEN text[2] ELSE 0]

\* history_df.first() under order by committed_at desc (or asc)
First(snapshots, order) ==
    IF order = "desc"
    THEN CHOOSE t \in snapshots : \A o \in snapshots : o <= t
    ELSE CHOOSE t \in snapshots : \A o \in snapshots : t <= o

\* A procedure that keeps the snapshot committed at older_than and no other.
expire_snapshots_keep_read(snapshots, older_than) ==
    {t \in snapshots : committed_at(t) = older_than}

\* system.expire_snapshots(table, older_than): removes the snapshots older
\* than older_than, but keeps the last one (retain_last is 1).
expire_snapshots(snapshots, older_than) ==
    {t \in snapshots :
        \/ ~Older(committed_at(t), older_than)
        \/ \A o \in snapshots : o <= t}

\* One statement of spark.sql(...) over the temporary view tmp (rows).
Statement(tbl, stmt, tmp, tick) ==
    CASE stmt.kind = "CREATE TABLE" ->
           IF tbl.present THEN Failed(tbl)
           ELSE Done(Commit([tbl EXCEPT !.snapshots = {}], tmp, tick))
      [] stmt.kind = "INSERT INTO" ->
           IF ~IsIceberg(tbl) THEN Failed(tbl)
           ELSE Done(Commit(tbl, tbl.rows (+) tmp, tick))
      [] stmt.kind = "CREATE OR REPLACE TABLE" ->
           IF tbl.present /\ ~IsIceberg(tbl) THEN Failed(tbl)
           ELSE Done(Commit(tbl, tmp, tick))
      [] stmt.kind = "MERGE INTO" ->
           IF ~IsIceberg(tbl) \/ MergeAmbiguous(stmt.on, tbl.rows, tmp)
           THEN Failed(tbl)
           ELSE Done(Commit(tbl, MergeRows(stmt.on, tbl.rows, tmp), tick))
      [] stmt.kind = "DROP TABLE" ->
           IF tbl.present THEN Done(Absent) ELSE Failed(tbl)
      [] stmt.kind = "REFRESH TABLE" ->
           IF IsIceberg(tbl) THEN Done(tbl) ELSE Failed(tbl)
      [] stmt.kind = "SELECT" ->
           IF IsIceberg(tbl) THEN Done(tbl) ELSE Failed(tbl)
      [] stmt.kind = "snapshots" ->
           IF IsIceberg(tbl) /\ tbl.snapshots # {} THEN Done(tbl)
           ELSE Failed(tbl)
      [] stmt.kind = "CALL expire_snapshots" ->
           LET last_commited_at == str(committed_at(First(tbl.snapshots,
                                                          stmt.order)))
           IN Done([tbl EXCEPT !.snapshots =
                       expire_snapshots(@, timestamp(last_commited_at))])
      [] stmt.kind = "hudi save" ->
           Done([tbl EXCEPT !.present = TRUE, !.provider = "hudi",
                            !.rows = HudiSave(stmt, tbl, tmp)])
      [] stmt.kind = "delta save" ->
           Done([tbl EXCEPT !.provider = "delta", !.rows = tmp,
                            !.manifest = FALSE])
      [] stmt.kind = "CREATE TABLE USING delta" ->
           IF tbl.present \/ tbl.provider # "delta" THEN Failed(tbl)
           ELSE Done([tbl EXCEPT !.present = TRUE])
      [] stmt.kind = "generate manifest" ->
           IF tbl.provider # "delta" THEN Failed(tbl)
           ELSE Done([tbl EXCEPT !.manifest = TRUE])
      [] stmt.kind = "CREATE EXTERNAL TABLE" ->
           IF tbl.athena THEN Failed(tbl)
           ELSE Done([tbl EXCEPT !.athena = TRUE])
      [] stmt.kind = "MSCK REPAIR TABLE" ->
           IF tbl.athena THEN Done(tbl) ELSE Failed(tbl)
      [] stmt.kind = "seed write" ->
           IF ~tbl.present
           THEN Done([tbl EXCEPT !.present = TRUE,
                                 !.provider = stmt.format, !.rows = tmp])
           ELSE IF stmt.overwrite THEN Done([tbl EXCEPT !.rows = tmp])
           ELSE Done([tbl EXCEPT !.rows = @ (+) tmp])
      [] stmt.kind \in {"REFRESH TABLE spark_catalog",
                        "SELECT spark_catalog"} ->
           IF tbl.present /\ ~IsIceberg(tbl) THEN Done(tbl) ELSE Failed(tbl)

\* A submitted script: the statements run in order over the temporary view;
\* the first one that fails ends the script, what ran before it stays done.
\* fault names the step at which the engine itself fails, if any.
RECURSIVE RunSteps(_, _, _, _, _)
RunSteps(tbl, steps, tmp, tick, fault) ==
    IF steps = <<>> THEN [table |-> tbl, failed |-> "none", ran |-> {}]
    ELSE LET st == Head(steps)
             r == IF fault = st.step THEN Failed(tbl)
                  ELSE Statement(tbl, st, tmp, tick)
         IN IF ~r.ok THEN [table |-> tbl, failed |-> st.step, ran |-> {}]
            ELSE LET rest == RunSteps(r.table, Tail(steps), tmp, tick, fault)
                 IN [rest EXCEPT !.ran = @ \cup {st.step}]

\* cursor.execute(code): a failure of the client before the script is sent
\* (the fault code.client) is an Exception, a failure of the script on the
\* engine a DatabaseException.
cursor_execute(tbl, code, tick, fault) ==
    IF fault = code.client
    THEN [outcome |-> "Exception", table |-> tbl, failed |-> "client",
          ran |-> {}]
    ELSE LET r == RunSteps(tbl, code.steps, code.tmp, tick, fault) IN
         [outcome |-> IF r.failed = "none" THEN "ok" ELSE "DatabaseException",
          table |-> r.table, failed |-> r.failed, ran |-> r.ran]

\* ------------------------------------------------------------ iceberg_write
\* merge_key is one field or a list of fields.
PrimaryKeys == {[list |-> FALSE, field |-> "id"],
                [list |-> TRUE, fields |-> <<"id">>],
                [list |-> TRUE, fields |-> <<"id", "v">>]}

\* A merge key that joins on the first field of a list only.
set_iceberg_merge_key_first(merge_key) ==
    IF ~merge_key.list THEN <<merge_key.field>>
    ELSE <<Head(merge_key.fields)>>

\* The fields f of ' AND '.join('t.f = s.f').
set_iceberg_merge_key(merge_key) ==
    IF ~merge_key.list THEN <<merge_key.field>> ELSE merge_key.fields

\* partition_key is None or a list of fields.
PartitionKeys == {[none |-> TRUE, fields |-> <<>>],
                  [none |-> FALSE, fields |-> <<"id">>]}

iceberg_create_or_replace_table(partition_by) ==
    [step |-> "core", kind |-> "CREATE OR REPLACE TABLE",
     using |-> IF partition_by.none THEN "iceberg" ELSE "",
     partitioned_by |-> partition_by, order_by |-> partition_by]

iceberg_insert(partition_by) ==
    [step |-> "core", kind |-> "INSERT INTO", order_by |-> partition_by]

iceberg_create_table(partition_by) ==
    [step |-> "core", kind |-> "CREATE TABLE", using |-> "iceberg",
     partitioned_by |-> partition_by, order_by |-> partition_by]

iceberg_upsert(merge_key) ==
    [step |-> "core", kind |-> "MERGE INTO",
     on |-> set_iceberg_merge_key(merge_key)]

\* outputDf = inputDf.drop("dbt_unique_key")
\*                   .withColumn("update_iceberg_ts", current_timestamp())
\* The value of the timestamp is not followed: one token stands for it.
iceberg_outputDf(inputDf) ==
    withColumn(drop(inputDf, "dbt_unique_key"), "update_iceberg_ts", "now")

WriteModes == {"append", "insert_overwrite", "merge"}

\* A choice of the statement by the mode alone, whether or not the table
\* was observed.
iceberg_core_code_by_mode(isTableExists, write_mode, primary_key, partition_key) ==
    CASE write_mode = "append" -> iceberg_insert(partition_key)
      [] write_mode = "insert_overwrite" ->
           iceberg_create_or_replace_table(partition_key)
      [] write_mode = "merge" -> iceberg_upsert(primary_key)
      [] OTHER -> iceberg_create_table(partition_key)

\* A choice with the branches of append and insert_overwrite exchanged.
iceberg_core_code_swapped(isTableExists, write_mode, primary_key, partition_key) ==
    IF isTableExists
    THEN CASE write_mode = "append" ->
                iceberg_create_or_replace_table(partition_key)
           [] write_mode = "insert_overwrite" ->
                iceberg_insert(partition_key)
           [] write_mode = "merge" -> iceberg_upsert(primary_key)
           [] OTHER -> [step |-> "core", kind |-> "unbound"]
    ELSE iceberg_create_table(partition_key)

\* A choice that creates or replaces where no table was observed.
iceberg_core_code_or_replace(isTableExists, write_mode, primary_key, partition_key) ==
    IF isTableExists
    THEN CASE write_mode = "append" -> iceberg_insert(partition_key)
           [] write_mode = "insert_overwrite" ->
                iceberg_create_or_replace_table(partition_key)
           [] write_mode = "merge" -> iceberg_upsert(primary_key)
           [] OTHER -> [step |-> "core", kind |-> "unbound"]
    ELSE iceberg_create_or_replace_table(partition_key)

\* core_code: the statement chosen from the observed existence and the mode;
\* with a table observed and a mode that is none of the three, core_code is
\* never bound.
iceberg_core_code(isTableExists, write_mode, primary_key, partition_key) ==
    IF isTableExists
    THEN CASE write_mode = "append" -> iceberg_insert(partition_key)
           [] write_mode = "insert_overwrite" ->
                iceberg_create_or_replace_table(partition_key)
           [] write_mode = "merge" -> iceberg_upsert(primary_key)
           [] OTHER -> [step |-> "core", kind |-> "unbound"]
    ELSE iceberg_create_table(partition_key)

\* A script that runs core_code whatever outputDf.count() is.
iceberg_code_unguarded(request, core_code) ==
    [client |-> "client", tmp |-> iceberg_outputDf(request),
     steps |-> <<core_code,
                 [step |-> "refresh", kind |-> "REFRESH TABLE"],
                 [step |-> "select", kind |-> "SELECT"]>>]

\* A script that replaces a table by dropping it and creating it again.
iceberg_code_drop_then_create(request, core_code) ==
    LET outputDf == iceberg_outputDf(request) IN
    [client |-> "client", tmp |-> outputDf,
     steps |-> (IF count(outputDf) = 0 THEN <<>>
                ELSE IF core_code.kind = "CREATE OR REPLACE TABLE"
                THEN <<[step |-> "drop", kind |-> "DROP TABLE"],
                       [core_code EXCEPT !.kind = "CREATE TABLE"]>>
                ELSE <<core_code>>)
               \o <<[step |-> "refresh", kind |-> "REFRESH TABLE"],
                    [step |-> "select", kind |-> "SELECT"]>>]

\* head_code + core_code + footer_code
iceberg_code(request, core_code) ==
    LET outputDf == iceberg_outputDf(request) IN
    [client |-> "client", tmp |-> outputDf,
     steps |-> (IF count(outputDf) > 0 THEN <<core_code>> ELSE <<>>)
               \o <<[step |-> "refresh", kind |-> "REFRESH TABLE"],
                    [step |-> "select", kind |-> "SELECT"]>>]

\* An except clause that raises under the message of hudi_merge_table.
iceberg_write_except_hudi_msg(outcome) ==
    IF outcome = "DatabaseException"
    THEN [outcome |-> "raised", tag |-> "GlueHudiMergeTableFailed"]
    ELSE [outcome |-> "returned", tag |-> "none"]

\* try: cursor.execute(code) / except DatabaseException / except Exception
iceberg_write_except(outcome) ==
    IF outcome = "DatabaseException"
    THEN [outcome |-> "raised", tag |-> "GlueIcebergWriteTableFailed"]
    ELSE [outcome |-> "returned", tag |-> "none"]

ActionOf(kind) ==
    CASE kind = "CREATE TABLE" -> "CREATE"
      [] kind = "INSERT INTO" -> "APPEND"
      [] kind = "CREATE OR REPLACE TABLE" -> "REPLACE"
      [] kind = "MERGE INTO" -> "UPSERT"
      [] OTHER -> "none"

\* Where the one failing call of a write is: the catalog lookup, the client,
\* or a statement of the script on the engine.
WriteFaults == {"none", "catalog", "client", "core", "refresh", "select"}

\* The relation is written by the entry point of its format; iceberg_write
\* alone is also tried on a table of another format that is in the catalog.
FormatIs(tbl, provider) == tbl.provider \in {"none", provider}

\* The schema of the target relation was created, with its grants, before
\* the relation is written.
SchemaReady == TargetSchema \in databases /\ TargetSchema \in grants

\* The calls tried.  primary_key is read by a merge only: the other modes
\* are tried with one key.  A fault is tried on the calls with one of the
\* three modes, no partition key and a key of one field.
IcebergWriteCalls ==
    {c \in [op : {"iceberg_write"}, request : Requests,
            write_mode : WriteModes \cup {"overwrite"},
            primary_key : PrimaryKeys, partition_key : PartitionKeys,
            fault : WriteFaults] :
        /\ c.write_mode # "merge" => ~c.primary_key.list
        /\ c.fault # "none" =>
              /\ c.write_mode \in WriteModes
              /\ c.partition_key.none
              /\ ~c.primary_key.list}

iceberg_write ==
    /\ pc = "idle"
    /\ commits < MaxCommits
    /\ SchemaReady
    /\ FormatIs(table, "iceberg") \/ table.present
    /\ \E c \in IcebergWriteCalls :
         LET isTableExists ==
                 check_relation_exists(table, c.fault = "catalog") = "True"
             core_code == iceberg_core_code(isTableExists, c.write_mode,
                                            c.primary_key, c.partition_key)
             code == iceberg_code(c.request, core_code)
             r == cursor_execute(table, code, commits + 1, c.fault)
             e == iceberg_write_except(r.outcome)
         IN /\ call' = c
            /\ IF core_code.kind = "unbound"
               THEN /\ ret' = [outcome |-> "raised",
                               tag |-> "UnboundLocalError",
                               isTableExists |-> isTableExists,
                               core_code |-> core_code, executes |-> 0,
                               failed |-> "none", ran |-> {}]
                    /\ UNCHANGED <<table, commits>>
               ELSE /\ ret' = [outcome |-> e.outcome, tag |-> e.tag,
                               isTableExists |-> isTableExists,
                               core_code |-> core_code, executes |-> 1,
                               failed |-> r.failed, ran |-> r.ran]
                    /\ table' = r.table
                    /\ commits' = IF "core" \in r.ran THEN commits + 1
                                  ELSE commits
    /\ before' = Snapshot
    /\ pc' = "returned"
    /\ UNCHANGED <<databases, grants>>

\* --------------------------------------------------------- hudi_merge_table
hudi_outputDf(inputDf) ==
    withColumn(drop(inputDf, "dbt_unique_key"), "update_hudi_ts", "now")

\* write_mode and hoodie.datasource.write.operation, from isTableExists
hudi_write(isTableExists, primary_key, keep) ==
    [step |-> "core", kind |-> "hudi save",
     mode |-> IF isTableExists THEN "Append" ELSE "Overwrite",
     operation |-> IF isTableExists THEN "upsert" ELSE "bulk_insert",
     recordkey |-> primary_key, keep |-> keep]

hudi_code(request, write) ==
    LET outputDf == hudi_outputDf(request) IN
    [client |-> "client", tmp |-> outputDf,
     steps |-> (IF count(outputDf) > 0 THEN <<write>> ELSE <<>>)
               \o <<[step |-> "refresh",
                     kind |-> "REFRESH TABLE spark_catalog"],
                    [step |-> "select", kind |-> "SELECT spark_catalog"]>>]

hudi_merge_table_except(outcome) ==
    IF outcome = "DatabaseException"
    THEN [outcome |-> "raised", tag |-> "GlueHudiMergeTableFailed"]
    ELSE [outcome |-> "returned", tag |-> "none"]

\* keep is the engine's choice among incoming rows of one key; it is tried
\* both ways where the request has such rows.
HudiMergeCalls ==
    {c \in [op : {"hudi_merge_table"}, request : Requests,
            primary_key : {"id"}, keep : Vals, fault : WriteFaults] :
        c.keep = "a" \/ \E r, o \in DOMAIN c.request : r.id = o.id /\ r # o}

hudi_merge_table ==
    /\ pc = "idle"
    /\ commits < MaxCommits
    /\ SchemaReady
    /\ FormatIs(table, "hudi")
    /\ \E c \in HudiMergeCalls :
         LET isTableExists ==
                 check_relation_exists(table, c.fault = "catalog") = "True"
             write == hudi_write(isTableExists, c.primary_key, c.keep)
             r == cursor_execute(table, hudi_code(c.request, write),
                                 commits + 1, c.fault)
             e == hudi_merge_table_except(r.outcome)
         IN /\ call' = c
            /\ ret' = [outcome |-> e.outcome, tag |-> e.tag,
                       isTableExists |-> isTableExists,
                       core_code |-> write, executes |-> 1,
                       failed |-> r.failed, ran |-> r.ran]
            /\ table' = r.table
            /\ commits' = IF "core" \in r.ran THEN commits + 1 ELSE commits
    /\ before' = Snapshot
    /\ pc' = "returned"
    /\ UNCHANGED <<databases, grants>>

\* ------------------------------------------------------- delta_create_table
\* session.credentials.delta_athena_prefix: a prefix, or None
AthenaPrefixes == {"athena", "None"}

\* `{prefix} is not None` tests a set literal, which is never None.
delta_prefix_is_not_None(prefix) == {prefix} # {}

\* The two except clauses of a try block, r being what cursor.execute did:
\* a DatabaseException is raised again under msg, any other exception is
\* logged and the method goes on.
TryExcept(r, name, msg) ==
    [table |-> r.table, ran |-> r.ran, executes |-> 1,
     raised |-> IF r.outcome = "DatabaseException" THEN msg ELSE "none",
     logged |-> IF r.outcome = "Exception" THEN {name} ELSE {}]

\* Except clauses that log the DatabaseException as well.
TryExcept_log_only(r, name, msg) ==
    [table |-> r.table, ran |-> r.ran, executes |-> 1, raised |-> "none",
     logged |-> IF r.outcome = "ok" THEN {} ELSE {name}]

\* A try block that logs the DatabaseException as well.
TryExecute_log_only(tbl, code, tick, fault, msg) ==
    TryExcept_log_only(cursor_execute(tbl, code, tick, fault), code.name, msg)

\* One try block around a cursor.execute.
TryExecute(tbl, code, tick, fault, msg) ==
    TryExcept(cursor_execute(tbl, code, tick, fault), code.name, msg)

\* re.sub("headertoberepalced", prefix, code) inside the try: with a prefix
\* of None it raises a TypeError, which is logged, and nothing is submitted.
TryExecutePrefixed(tbl, code, prefix, tick, fault, msg) ==
    IF prefix = "None"
    THEN [table |-> tbl, ran |-> {}, executes |-> 0, raised |-> "none",
          logged |-> {code.name}]
    ELSE TryExecute(tbl, code, tick, fault, msg)

write_data_code(request) ==
    [name |-> "write_data_code", client |-> "client write_data_code",
     tmp |-> request,
     steps |-> <<[step |-> "write", kind |-> "delta save"]>>]

create_table_query ==
    [name |-> "create_table_query", client |-> "client create_table_query",
     tmp |-> EmptyBag,
     steps |-> <<[step |-> "create", kind |-> "CREATE TABLE USING delta"]>>]

create_athena_table ==
    [name |-> "create_athena_table",
     client |-> "client create_athena_table", tmp |-> EmptyBag,
     steps |-> <<[step |-> "generate", kind |-> "generate manifest"],
                 [step |-> "external", kind |-> "CREATE EXTERNAL TABLE"],
                 [step |-> "repair", kind |-> "MSCK REPAIR TABLE"]>>]

Then(a, b) ==
    [table |-> b.table, ran |-> a.ran \cup b.ran,
     executes |-> a.executes + b.executes, raised |-> b.raised,
     logged |-> a.logged \cup b.logged]

\* The third try block, under `if {prefix} is not None`; c is the method so
\* far.
delta_create_athena_table(c, prefix, tick, fault) ==
    IF c.raised # "none" \/ ~delta_prefix_is_not_None(prefix) THEN c
    ELSE Then(c, TryExecutePrefixed(c.table, create_athena_table, prefix,
                                    tick, fault,
                                    "GlueDeltaCreateTableFailed"))

\* The second try block; w is what the first did.
delta_create_table_query(w, prefix, tick, fault) ==
    IF w.raised # "none" THEN w
    ELSE delta_create_athena_table(
             Then(w, TryExecute(w.table, create_table_query, tick, fault,
                                "GlueDeltaWriteTableFailed")),
             prefix, tick, fault)

\* The three try blocks in order; a raise ends the method.
delta_create_table_body(tbl, request, prefix, tick, fault) ==
    delta_create_table_query(
        TryExecute(tbl, write_data_code(request), tick, fault,
                   "GlueDeltaWriteTableFailed"),
        prefix, tick, fault)

DeltaFaults ==
    {"none", "write", "create", "generate", "external", "repair",
     "client write_data_code", "client create_table_query",
     "client create_athena_table"}

\* A missing prefix is tried without a fault.
DeltaCreateCalls ==
    {c \in [op : {"delta_create_table"}, request : Requests,
            prefix : AthenaPrefixes, fault : DeltaFaults] :
        c.prefix = "None" => c.fault = "none"}

delta_create_table ==
    /\ pc = "idle"
    /\ commits < MaxCommits
    /\ SchemaReady
    /\ FormatIs(table, "delta")
    /\ \E c \in DeltaCreateCalls :
         LET r == delta_create_table_body(table, c.request, c.prefix,
                                          commits + 1, c.fault)
         IN /\ call' = c
            /\ ret' = [outcome |-> IF r.raised = "none" THEN "returned"
                                   ELSE "raised",
                       tag |-> r.raised, executes |-> r.executes,
                       ran |-> r.ran, logged |-> r.logged]
            /\ table' = r.table
            /\ commits' = IF "write" \in r.ran THEN commits + 1 ELSE commits
    /\ before' = Snapshot
    /\ pc' = "returned"
    /\ UNCHANGED <<databases, grants>>

\* ----------------------------------------------------- delta_update_manifest
update_manifest_code ==
    [name |-> "update_manifest_code",
     client |-> "client update_manifest_code", tmp |-> EmptyBag,
     steps |-> <<[step |-> "generate", kind |-> "generate manifest"],
                 [step |-> "repair", kind |-> "MSCK REPAIR TABLE"]>>]

delta_update_manifest_body(tbl, prefix, fault) ==
    IF delta_prefix_is_not_None(prefix)
    THEN TryExecutePrefixed(tbl, update_manifest_code, prefix, 0, fault,
                            "GlueDeltaUpdateManifestFailed")
    ELSE [table |-> tbl, ran |-> {}, executes |-> 0, raised |-> "none",
          logged |-> {}]

ManifestCalls ==
    {c \in [op : {"delta_update_manifest"}, prefix : AthenaPrefixes,
            fault : {"none", "generate", "repair",
                     "client update_manifest_code"}] :
        c.prefix = "None" => c.fault = "none"}

delta_update_manifest ==
    /\ pc = "idle"
    /\ SchemaReady
    /\ FormatIs(table, "delta")
    /\ \E c \in ManifestCalls :
         LET r == delta_update_manifest_body(table, c.prefix, c.fault)
         IN /\ call' = c
            /\ ret' = [outcome |-> IF r.raised = "none" THEN "returned"
                                   ELSE "raised",
                       tag |-> r.raised, executes |-> r.executes,
                       ran |-> r.ran, logged |-> r.logged]
            /\ table' = r.table
    /\ before' = Snapshot
    /\ pc' = "returned"
    /\ UNCHANGED <<databases, grants, commits>>

\* --------------------------------------------------------- create_csv_table
\* session.credentials.seed_mode
SeedModes == {"overwrite", "append"}

\* The seed files: rows of the model's columns.
SeedTables == {drop(r, "dbt_unique_key") : r \in Requests}

\* insertInto(table_name, overwrite=mode) when the table is shown, otherwise
\* saveAsTable; then the select.
csv_code(agate_table, seed_mode) ==
    [client |-> "client", tmp |-> agate_table,
     steps |-> <<[step |-> "core", kind |-> "seed write",
                  overwrite |-> seed_mode = "overwrite",
                  format |-> "parquet"],
                 [step |-> "select", kind |-> "SELECT spark_catalog"]>>]

create_csv_table_except(outcome) ==
    IF outcome = "DatabaseException"
    THEN [outcome |-> "raised", tag |-> "GlueCreateCsvFailed"]
    ELSE [outcome |-> "returned", tag |-> "none"]

CsvCalls ==
    [op : {"create_csv_table"}, agate_table : SeedTables,
     seed_mode : SeedModes, fault : {"none", "client", "core", "select"}]

create_csv_table ==
    /\ pc = "idle"
    /\ commits < MaxCommits
    /\ SchemaReady
    /\ FormatIs(table, "parquet")
    /\ \E c \in CsvCalls :
         LET r == cursor_execute(table, csv_code(c.agate_table, c.seed_mode),
                                 commits + 1, c.fault)
             e == create_csv_table_except(r.outcome)
         IN /\ call' = c
            /\ ret' = [outcome |-> e.outcome, tag |-> e.tag, executes |-> 1,
                       failed |-> r.failed, ran |-> r.ran]
            /\ table' = r.table
            /\ commits' = IF "core" \in r.ran THEN commits + 1 ELSE commits
    /\ before' = Snapshot
    /\ pc' = "returned"
    /\ UNCHANGED <<databases, grants>>

\* ------------------------------------------------- iceberg_expire_snapshots
\* A script that orders the snapshots by committed_at asc.
expire_code_oldest_first ==
    [client |-> "client", tmp |-> EmptyBag,
     steps |-> <<[step |-> "history", kind |-> "snapshots",
                  order |-> "asc"],
                 [step |-> "expire", kind |-> "CALL expire_snapshots",
                  order |-> "asc"]>>]

\* The script: the snapshots by committed_at, the latest first; its time as
\* text into the call of the expire procedure.
expire_code ==
    [client |-> "client", tmp |-> EmptyBag,
     steps |-> <<[step |-> "history", kind |-> "snapshots",
                  order |-> "desc"],
                 [step |-> "expire", kind |-> "CALL expire_snapshots",
                  order |-> "desc"]>>]

iceberg_expire_snapshots_except(outcome) ==
    IF outcome = "DatabaseException"
    THEN [outcome |-> "raised", tag |-> "GlueIcebergExpireSnapshotsFailed"]
    ELSE [outcome |-> "returned", tag |-> "none"]

ExpireCalls ==
    [op : {"iceberg_expire_snapshots"},
     fault : {"none", "client", "history", "expire"}]

iceberg_expire_snapshots ==
    /\ pc = "idle"
    /\ SchemaReady
    /\ \E c \in ExpireCalls :
         LET r == cursor_execute(table, expire_code, 0, c.fault)
             e == iceberg_expire_snapshots_except(r.outcome)
         IN /\ call' = c
            /\ ret' = [outcome |-> e.outcome, tag |-> e.tag, executes |-> 1,
                       failed |-> r.failed, ran |-> r.ran]
            /\ table' = r.table
    /\ before' = Snapshot
    /\ pc' = "returned"
    /\ UNCHANGED <<databases, grants, commits>>

Next ==
    \/ create_schema
    \/ check_schema_exists_call
    \/ check_relation_exists_call
    \/ list_relations_without_caching_call
    \/ get_one_catalog
    \/ drop_schema
    \/ get_relation_call
    \/ get_table_type_call
    \/ iceberg_write
    \/ hudi_merge_table
    \/ delta_create_table
    \/ delta_update_manifest
    \/ create_csv_table
    \/ iceberg_expire_snapshots
    \/ Return

Spec == Init /\ [][Next]_vars

\* ------------------------------------------------- get_table_type, by input
\* The descriptors client.get_table can answer with: not found, or a table
\* with a raw TableType (three the map knows, one it does not, and none) and
\* a Parameters.table_type written in several ways.
RawTypes == {"EXTERNAL_TABLE", "MANAGED_TABLE", "VIRTUAL_VIEW", "GOVERNED",
             "missing"}

TableTypeTexts ==
    {<<>>, ICEBERG,
     <<"i", "c", "e", "b", "e", "r", "g">>,
     <<"I", "c", "e", "b", "e", "r", "g">>,
     <<"i", "c", "e", "B", "E", "R", "G">>,
     <<"I", "C", "E">>,
     <<"H", "I", "V", "E">>,
     <<"i", "c", "e", "b", "e", "r", "g", "s">>}

Descriptors ==
    {[found |-> FALSE]}
    \cup {[found |-> TRUE, TableType |-> r, table_type |-> t] :
             r \in RawTypes, t \in TableTypeTexts}

TypeInit ==
    /\ databases = {TargetSchema}
    /\ grants = {}
    /\ table = Absent
    /\ commits = 0
    /\ pc = "idle"
    /\ \E d \in Descriptors, f \in ReadFaults :
         call = [op |-> "get_table_type", fault |-> f, response |-> d]
    /\ ret = Idle
    /\ before = Idle

get_table_type_of_descriptor ==
    /\ pc = "idle"
    /\ ret' = get_table_type(call.response, call.fault = "catalog")
    /\ pc' = "returned"
    /\ UNCHANGED <<databases, grants, table, commits, call, before>>

TypeNext == get_table_type_of_descriptor

TypeSpec == TypeInit /\ [][TypeNext]_vars

\* ------------------------------------------------------ concurrent sessions
\* Two callers, each with its own Glue session, on the one target relation.
\* A call is followed statement by statement: iceberg_write looks the
\* relation up and builds its script, cursor.execute submits it, and the
\* session runs the statements of the script one after the other, the
\* statements of the other session in between.  pc, call, ret and before
\* are kept per caller; before is the table as the caller's last statement
\* found it.
Callers == {"a", "b"}

\* Requests of no row or of one row, of one key
SessionRequests ==
    {r \in Requests : count(r) <= 1 /\ \A x \in DOMAIN r : x.id = 1}

\* The engine fails at the core statement or at REFRESH TABLE, or not at all.
SessionWriteCalls ==
    [op : {"iceberg_write"}, request : SessionRequests,
     write_mode : WriteModes,
     primary_key : {[list |-> FALSE, field |-> "id"]},
     partition_key : {[none |-> TRUE, fields |-> <<>>]},
     fault : {"none", "core", "refresh"}]

SessionExpireCalls ==
    [op : {"iceberg_expire_snapshots"}, fault : {"none", "expire"}]

SessionsInit ==
    /\ databases = {TargetSchema}
    /\ grants = {TargetSchema}
    /\ table = Absent
    /\ commits = 0
    /\ pc = [p \in Callers |-> "idle"]
    /\ call = [p \in Callers |-> Idle]
    /\ ret = [p \in Callers |-> Idle]
    /\ before = [p \in Callers |-> Idle]

\* Writes whose script is submitted and whose core statement is still to run
Writing(p) ==
    /\ pc[p] = "executing"
    /\ call[p].op = "iceberg_write"
    /\ \E i \in DOMAIN ret[p].steps : ret[p].steps[i].step = "core"

\* iceberg_write up to cursor.execute(code): isTableExists is looked up and
\* core_code chosen from it; the script is submitted.
iceberg_write_submit(p) ==
    /\ pc[p] = "idle"
    /\ commits + Cardinality({q \in Callers : Writing(q)}) < MaxCommits
    /\ \E c \in SessionWriteCalls :
         LET isTableExists == check_relation_exists(table, FALSE) = "True"
             core_code == iceberg_core_code(isTableExists, c.write_mode,
                                            c.primary_key, c.partition_key)
             code == iceberg_code(c.request, core_code)
         IN /\ call' = [call EXCEPT ![p] = c]
            /\ ret' = [ret EXCEPT ![p] =
                          [isTableExists |-> isTableExists,
                           core_code |-> core_code, steps |-> code.steps,
                           tmp |-> code.tmp, ran |-> {}, failed |-> "none",
                           outcome |-> "none", tag |-> "none"]]
    /\ pc' = [pc EXCEPT ![p] = "executing"]
    /\ UNCHANGED <<databases, grants, table, commits, before>>

\* iceberg_expire_snapshots up to cursor.execute(code)
iceberg_expire_snapshots_submit(p) ==
    /\ pc[p] = "idle"
    /\ table.present
    /\ \E c \in SessionExpireCalls :
         /\ call' = [call EXCEPT ![p] = c]
         /\ ret' = [ret EXCEPT ![p] =
                       [steps |-> expire_code.steps, tmp |-> expire_code.tmp,
                        ran |-> {}, failed |-> "none", outcome |-> "none",
                        tag |-> "none", first |-> 0,
                        last_commited_at |-> <<>>]]
    /\ pc' = [pc EXCEPT ![p] = "executing"]
    /\ UNCHANGED <<databases, grants, table, commits, before>>

\* One statement in a session.  The call of the expire procedure carries
\* the text of the time the script read before; the other statements are
\* the engine's.
SessionStatement(tbl, stmt, tmp, tick, last_commited_at) ==
    IF stmt.kind = "CALL expire_snapshots"
    THEN Done([tbl EXCEPT !.snapshots =
                  expire_snapshots(@, timestamp(last_commited_at))])
    ELSE Statement(tbl, stmt, tmp, tick)

\* The except clauses of the entry point
session_except(op, outcome) ==
    IF op = "iceberg_write" THEN iceberg_write_except(outcome)
    ELSE iceberg_expire_snapshots_except(outcome)

\* What the script keeps of a statement that ran: the first row of
\* history_df and its committed_at as text.
session_locals(r, tbl, stmt) ==
    IF stmt.kind = "snapshots"
    THEN [r EXCEPT !.first = First(tbl.snapshots, stmt.order),
                   !.last_commited_at =
                       str(committed_at(First(tbl.snapshots, stmt.order)))]
    ELSE r

\* The session of caller p runs the next statement of its script.  A
\* statement that fails ends the script and cursor.execute raises; after the
\* last one cursor.execute returns.
session_execute(p) ==
    /\ pc[p] = "executing"
    /\ LET st == Head(ret[p].steps)
           last == IF call[p].op = "iceberg_expire_snapshots"
                   THEN ret[p].last_commited_at ELSE <<>>
           r == IF call[p].fault = st.step THEN Failed(table)
                ELSE SessionStatement(table, st, ret[p].tmp, commits + 1,
                                      last)
           rest == Tail(ret[p].steps)
       IN IF r.ok
          THEN /\ table' = r.table
               /\ commits' = IF st.step = "core" THEN commits + 1
                             ELSE commits
               /\ ret' = [ret EXCEPT ![p] =
                             [session_locals(ret[p], table, st) EXCEPT
                                !.steps = rest,
                                !.ran = @ \cup {st.step},
                                !.outcome = IF rest = <<>>
                                            THEN session_except(call[p].op,
                                                                "ok").outcome
                                            ELSE "none"]]
               /\ pc' = [pc EXCEPT ![p] = IF rest = <<>> THEN "returned"
                                          ELSE "executing"]
          ELSE /\ UNCHANGED <<table, commits>>
               /\ ret' = [ret EXCEPT ![p] =
                             [ret[p] EXCEPT
                                !.failed = st.step,
                                !.outcome =
                                    session_except(call[p].op,
                                        "DatabaseException").outcome,
                                !.tag = session_except(call[p].op,
                                            "DatabaseException").tag]]
               /\ pc' = [pc EXCEPT ![p] = "returned"]
    /\ before' = [before EXCEPT ![p] = table]
    /\ UNCHANGED <<databases, grants, call>>

\* The caller takes the outcome of the call.
session_return(p) ==
    /\ pc[p] = "returned"
    /\ pc' = [pc EXCEPT ![p] = "idle"]
    /\ call' = [call EXCEPT ![p] = Idle]
    /\ ret' = [ret EXCEPT ![p] = Idle]
    /\ before' = [before EXCEPT ![p] = Idle]
    /\ UNCHANGED <<databases, grants, table, commits>>

SessionsNext ==
    \/ \E p \in Callers : iceberg_write_submit(p)
    \/ \E p \in Callers : iceberg_expire_snapshots_submit(p)
    \/ \E p \in Callers : session_execute(p)
    \/ \E p \in Callers : session_return(p)

SessionsSpec == SessionsInit /\ [][SessionsNext]_vars

\* =============================================================== properties
Returned(op) == pc = "returned" /\ call.op = op

\* The submitted script ran to its end.
Completed == ret.outcome = "returned" /\ ret.failed = "none"

\* The existence lookup of the call was answered by the catalog.
LookupServed == call.fault # "catalog"

Max(S) == CHOOSE t \in S : \A o \in S : o <= t

\* C1: a target relation that is absent when iceberg_write is called gets
\* the CREATE action whatever the write mode, submitted once; after a call
\* whose script ran to its end the table exists, is an Iceberg table, and its
\* rows are the rows of the source query, each as often as the query gave it
\* (without dbt_unique_key, with update_iceberg_ts).
C1_AbsentTableIsCreated ==
    (Returned("iceberg_write") /\ ~before.table.present) =>
        /\ ActionOf(ret.core_code.kind) = "CREATE"
        /\ ret.executes = 1
        /\ Completed =>
             /\ table.present
             /\ table.provider = "iceberg"
             /\ get_table(table).table_type = ICEBERG
             /\ count(table.rows) = count(call.request)
             /\ drop(table.rows, "update_iceberg_ts")
                  = drop(call.request, "dbt_unique_key")

C1_Witness ==
    /\ Returned("iceberg_write")
    /\ ~before.table.present
    /\ call.write_mode = "merge"
    /\ Completed
    /\ count(call.request) = 2
    /\ table.present
    /\ count(table.rows) = 2

\* C2: for a target relation that is present and found by the lookup,
\* iceberg_write submits once the statement of the action its mode names:
\* append APPEND, insert_overwrite REPLACE, merge UPSERT, and no other.
C2_PresentActionByMode ==
    (/\ Returned("iceberg_write")
     /\ before.table.present
     /\ LookupServed
     /\ call.write_mode \in WriteModes) =>
        /\ ret.executes = 1
        /\ ActionOf(ret.core_code.kind) =
             (CASE call.write_mode = "append" -> "APPEND"
                [] call.write_mode = "insert_overwrite" -> "REPLACE"
                [] call.write_mode = "merge" -> "UPSERT")

C2_Witness ==
    /\ Returned("iceberg_write")
    /\ before.table.present
    /\ LookupServed
    /\ call.write_mode = "insert_overwrite"
    /\ ActionOf(ret.core_code.kind) = "REPLACE"
    /\ Completed
    /\ "core" \in ret.ran

\* C3: create_schema of a schema that is in the catalog changes neither the
\* databases nor the grants and asks the catalog for nothing, so a second
\* call leaves what the first left; with the catalog answering, the call
\* returns without an error, the schema is in the catalog after it and
\* check_schema_exists finds it.
C3_CreateSchemaIdempotent ==
    Returned("create_schema") =>
        /\ call.schema \in before.databases =>
             /\ databases = before.databases
             /\ grants = before.grants
             /\ ret.issued = {}
             /\ call.fault # "sts" => ret.outcome = "returned"
        /\ call.fault = "none" =>
             /\ ret.outcome = "returned"
             /\ call.schema \in databases
             /\ check_schema_exists(databases, call.schema, FALSE) = "True"
             /\ databases = before.databases \cup {call.schema}

\* The second of two calls: the schema is there from an earlier create_schema
\* whose grant failed, and the call leaves it so.
C3_Witness ==
    /\ Returned("create_schema")
    /\ call.schema \in before.databases
    /\ call.schema \notin before.grants
    /\ call.fault = "none"
    /\ ret.outcome = "returned"
    /\ databases = before.databases

\* The two writes that skip their data statement on an empty source.
GuardedWrite ==
    /\ pc = "returned"
    /\ call.op \in {"iceberg_write", "hudi_merge_table"}
    /\ call.op = "iceberg_write" => call.write_mode \in WriteModes

\* The target was there before the call, in the format the call writes.
PresentInFormat ==
    /\ before.table.present
    /\ before.table.provider =
         (IF call.op = "iceberg_write" THEN "iceberg" ELSE "hudi")

C5_ExpireKeepsLatest ==
    (Returned("iceberg_expire_snapshots") /\ Completed) =>
        LET latest == Max(before.table.snapshots) IN
        /\ before.table.snapshots # {}
        /\ latest \in table.snapshots
        /\ table.snapshots \subseteq before.table.snapshots
        /\ \A t \in before.table.snapshots :
              Older(committed_at(t), committed_at(latest))
                 => t \notin table.snapshots
        /\ table.rows = before.table.rows

C5_Witness ==
    /\ Returned("iceberg_expire_snapshots")
    /\ Completed
    /\ Cardinality(before.table.snapshots) >= 2
    /\ table.snapshots = {Max(before.table.snapshots)}

\* The fields of the primary key K of a merge, one or several.
K == IF call.primary_key.list THEN call.primary_key.fields
     ELSE <<call.primary_key.field>>

SameK(t, s) == \A i \in 1..Len(K) : t[K[i]] = s[K[i]]

\* The rows of the model's columns: before, incoming, after.
Existing == drop(before.table.rows, "update_iceberg_ts")
Incoming == drop(call.request, "dbt_unique_key")
After == drop(table.rows, "update_iceberg_ts")

Collides(t) == \E s \in DOMAIN Incoming : SameK(t, s)

\* The copies of the existing rows that the incoming row s matches.
Replaced(s) ==
    SumCounts(Existing, {t \in DOMAIN Existing : SameK(t, s)})

MergeRan ==
    /\ Returned("iceberg_write")
    /\ call.write_mode = "merge"
    /\ before.table.present
    /\ "core" \in ret.ran

\* C6: after the merge statement of iceberg_write with primary key K (one
\* field or a list, all of them equal) has run on a present table: every
\* existing row whose K equals an incoming row's K has become that incoming
\* row, all of its columns; every incoming row without a match is inserted;
\* the other existing rows are as they were; there is no other row; and the
\* count after is at most the count before plus the incoming rows, equal
\* when no key collides.
C6_MergeSemantics ==
    MergeRan =>
        /\ ret.core_code.kind = "MERGE INTO"
        /\ \A s \in DOMAIN Incoming :
              CopiesIn(s, After) =
                 (IF Replaced(s) > 0 THEN Replaced(s)
                  ELSE CopiesIn(s, Incoming))
        /\ \A t \in DOMAIN Existing :
              ~Collides(t) => CopiesIn(t, After) = CopiesIn(t, Existing)
        /\ \A r \in DOMAIN After :
              \/ r \in DOMAIN Incoming
              \/ r \in DOMAIN Existing /\ ~Collides(r)
        /\ count(After) <= count(Existing) + count(Incoming)
        /\ (\A t \in DOMAIN Existing : ~Collides(t))
              => count(After) = count(Existing) + count(Incoming)

\* Existing [{id:1,v:a}] merged with [{id:1,v:b},{id:2,v:a}] on id gives
\* [{id:1,v:b},{id:2,v:a}].
C6_Witness ==
    /\ MergeRan
    /\ K = <<"id">>
    /\ Existing = SetToBag({[id |-> 1, v |-> "a"]})
    /\ Incoming = SetToBag({[id |-> 1, v |-> "b"], [id |-> 2, v |-> "a"]})
    /\ After = SetToBag({[id |-> 1, v |-> "b"], [id |-> 2, v |-> "a"]})

\* The tag of the entry point called.
EntryTag ==
    CASE call.op = "iceberg_write" -> "GlueIcebergWriteTableFailed"
      [] call.op = "hudi_merge_table" -> "GlueHudiMergeTableFailed"
      [] call.op = "create_csv_table" -> "GlueCreateCsvFailed"
      [] call.op = "delta_update_manifest" -> "GlueDeltaUpdateManifestFailed"
      [] OTHER -> "none"

\* The engine failed the data statement of an iceberg_write.
RemoteWriteFailure ==
    /\ Returned("iceberg_write")
    /\ ret.executes = 1
    /\ ret.failed = "core"

\* The tag a remote failure of iceberg_write carries when the statement is
\* the one chosen for (isTableExists, write_mode).
FailureTagOf(isTableExists, write_mode) ==
    [action |-> ActionOf(iceberg_core_code(isTableExists, write_mode,
                                           call.primary_key,
                                           call.partition_key).kind),
     tag |-> iceberg_write_except("DatabaseException").tag]

\* C7: a remote failure during a CREATE, APPEND, REPLACE or UPSERT write is
\* raised as a write failure whose tag identifies the attempted action: no
\* failed write of another action carries the same tag; and the statement is
\* submitted at most once.
C7_TagIdentifiesAction ==
    RemoteWriteFailure =>
        /\ ret.outcome = "raised"
        /\ ret.executes <= 1
        /\ \A ex \in BOOLEAN, m \in WriteModes :
              FailureTagOf(ex, m).action # ActionOf(ret.core_code.kind)
                 => FailureTagOf(ex, m).tag # ret.tag

\* C7 as amended: a remote failure of the script of iceberg_write or
\* hudi_merge_table is raised as a write failure whose tag identifies the
\* entry point, GlueIcebergWriteTableFailed for every action of
\* iceberg_write; and a call submits its script at most once.
C7_TagIdentifiesEntryPoint ==
    (pc = "returned" /\ call.op \in {"iceberg_write", "hudi_merge_table"}) =>
        /\ ret.executes <= 1
        /\ ret.failed \notin {"none", "client"} =>
              /\ ret.outcome = "raised"
              /\ ret.tag = EntryTag
              /\ ret.executes = 1
        /\ RemoteWriteFailure =>
              \A ex \in BOOLEAN, m \in WriteModes :
                 FailureTagOf(ex, m).tag = ret.tag

\* A failed merge, raised under the tag a failed create carries.
C7_Witness ==
    /\ RemoteWriteFailure
    /\ ActionOf(ret.core_code.kind) = "UPSERT"
    /\ ret.outcome = "raised"
    /\ ret.tag = FailureTagOf(FALSE, "merge").tag
    /\ FailureTagOf(FALSE, "merge").action = "CREATE"
    /\ table = before.table

\* The data statement of the write called was submitted and did not run.
WriteDidNotRun ==
    /\ pc = "returned"
    /\ \/ /\ call.op \in {"iceberg_write", "hudi_merge_table",
                          "create_csv_table"}
          /\ call.op # "create_csv_table" => count(call.request) > 0
          /\ ret.executes = 1
          /\ ret.failed \in {"client", "core"}
       \/ /\ call.op = "delta_create_table"
          /\ "write" \notin ret.ran

\* C8: a call of iceberg_write, hudi_merge_table, delta_create_table or
\* create_csv_table whose write statement failed, with whatever failure,
\* ends by raising a tagged error; it never returns normally.
C8_WritesFailLoudly ==
    WriteDidNotRun => ret.outcome = "raised" /\ ret.tag # "none"

\* The step that makes the written data visible failed after the data was
\* written.
SyncFailed ==
    /\ pc = "returned"
    /\ \/ /\ call.op \in {"iceberg_write", "hudi_merge_table"}
          /\ "core" \in ret.ran
          /\ ret.failed = "refresh"
       \/ /\ call.op = "delta_update_manifest"
          /\ before.table.rows = table.rows
          /\ before.table.provider = "delta"
          /\ ret.executes = 1
          /\ "repair" \notin ret.ran

\* ... and it was the engine that failed it.
SyncFailedRemotely ==
    /\ SyncFailed
    /\ call.op = "delta_update_manifest"
          => call.fault # update_manifest_code.client

\* C9: a failure of the catalog-sync step after a successful data write
\* (delta_update_manifest, REFRESH TABLE at the end of iceberg_write and
\* hudi_merge_table) is only logged: the call returns, and no error, no write
\* failure, reaches the caller.
C9_SyncFailureOnlyLogged ==
    SyncFailed => ret.outcome = "returned" /\ ret.tag = "none"

\* C9 as amended: a failure of the catalog-sync step that the engine reports
\* is raised to the caller under the tag of the entry point
\* (GlueDeltaUpdateManifestFailed, or the write failure of iceberg_write or
\* hudi_merge_table), the data written before it staying written.
C9_SyncFailurePropagated ==
    SyncFailedRemotely =>
        /\ ret.outcome = "raised"
        /\ ret.tag = EntryTag
        /\ call.op # "delta_update_manifest" =>
              /\ table.present
              /\ call.op = "iceberg_write" => commits \in table.snapshots
              /\ call.op = "hudi_merge_table" => table.provider = "hudi"

C9_Witness ==
    /\ SyncFailedRemotely
    /\ call.op = "iceberg_write"
    /\ ~before.table.present
    /\ table.present
    /\ count(table.rows) = 2
    /\ ret.outcome = "raised"
    /\ ret.tag = "GlueIcebergWriteTableFailed"

\* C10: a merge by iceberg_write, with rows to merge, against a present
\* table that is not an Iceberg table is rejected, also when the catalog and
\* the engine answer: the call raises an error and submits no merge
\* statement to the engine.
C10_MergeOnOtherFormatRejected ==
    (/\ Returned("iceberg_write")
     /\ call.write_mode = "merge"
     /\ before.table.present
     /\ before.table.provider # "iceberg"
     /\ count(call.request) > 0
     /\ call.fault = "none") =>
        /\ ret.outcome = "raised"
        /\ ret.executes = 0
        /\ ret.core_code.kind # "MERGE INTO"

\* The entry points that write the target relation, and the format each
\* writes.
WriteCall ==
    /\ pc = "returned"
    /\ call.op \in {"iceberg_write", "hudi_merge_table", "delta_create_table",
                    "create_csv_table"}

DeclaredFormat ==
    CASE call.op = "iceberg_write" -> "iceberg"
      [] call.op = "hudi_merge_table" -> "hudi"
      [] call.op = "delta_create_table" -> "delta"
      [] call.op = "create_csv_table" -> "parquet"

\* C11: a write call with rows to write, the catalog and the engine
\* answering, never
\* changes the format of a table that is there before it, and a write whose
\* format is not the table's is detected and rejected: the call raises and
\* submits nothing to the engine.
C11_FormatSticky ==
    (/\ WriteCall
     /\ before.table.present
     /\ call.fault = "none"
     /\ call.op # "create_csv_table" => count(call.request) > 0) =>
        /\ table.present
        /\ table.provider = before.table.provider
        /\ before.table.provider # DeclaredFormat =>
              /\ ret.outcome = "raised"
              /\ ret.executes = 0

\* The logical type of a relation of the format a write made it in.
LogicalTypeOf(provider) ==
    IF provider = "iceberg" THEN "iceberg_table" ELSE "table"

\* The target relation, made by a write, is resolved with the catalog
\* answering.
Resolved(op) ==
    /\ Returned(op)
    /\ call.fault = "none"
    /\ table.present

\* C12: get_relation of a relation a successful write created returns a
\* Relation whose type is the type of the format used at creation:
\* iceberg_table for a table created by iceberg_write.
C12_GetRelationTypeIsFormat ==
    Resolved("get_relation") =>
        ret.result = LogicalTypeOf(table.provider)

\* C12 as amended: get_relation of such a relation returns a Relation of
\* the type relation_type_map gives the catalog's TableType, table, whatever
\* the format; the type of the format is what get_table_type returns,
\* iceberg_table for a table created by iceberg_write.
C12_GetTableTypeIsFormat ==
    /\ Resolved("get_relation") => ret.result = "table"
    /\ Resolved("get_table_type") =>
          /\ ret.outcome = "returned"
          /\ ret.result = LogicalTypeOf(table.provider)

C12_Witness ==
    /\ Resolved("get_table_type")
    /\ table.provider = "iceberg"
    /\ commits = 1
    /\ ret.result = "iceberg_table"
    /\ get_relation(table, FALSE) = "table"

\* The places of an effect in what a call asked for, in order.
Places(effect) == {i \in DOMAIN ret.issued : ret.issued[i] = effect}

\* C13: drop_schema of a schema that does not exist issues no delete and
\* leaves the catalog as it is; of a schema that exists, with the catalog
\* answering, it deletes the database; whenever a delete was attempted, gone
\* through or failed, cleanup_all follows it, once, and never comes before
\* it or without it; after a drop_schema that deleted the schema,
\* check_schema_exists does not find it.
C13_DropSchema ==
    Returned("drop_schema") =>
        /\ call.schema \notin before.databases =>
              /\ ret.issued = <<>>
              /\ <<databases, grants, table>>
                    = <<before.databases, before.grants, before.table>>
        /\ (call.schema \in before.databases /\ call.fault = "none") =>
              /\ ret.deleted
              /\ databases = before.databases \ {call.schema}
        /\ Places("delete_database") # {} =>
              /\ Cardinality(Places("delete_database")) = 1
              /\ Cardinality(Places("cleanup_all")) = 1
        /\ \A i \in Places("cleanup_all") :
              \E j \in Places("delete_database") : j < i
        /\ ~ret.deleted => databases = before.databases
        /\ ret.deleted =>
              /\ check_schema_exists(databases, call.schema, FALSE) = "False"
              /\ ~table.present

\* A delete that failed on a schema with a table in it, the connections
\* released after it.
C13_Witness ==
    /\ Returned("drop_schema")
    /\ call.fault = "delete"
    /\ before.table.present
    /\ ret.issued = <<"delete_database", "cleanup_all">>
    /\ databases = before.databases

\* The catalog call of a lifecycle or read operation failed.
CatalogCallFailed ==
    /\ pc = "returned"
    /\ call.op \in {"check_schema_exists", "check_relation_exists",
                    "list_relations_without_caching", "_get_one_catalog"}
    /\ call.fault \in {"list", "catalog"}

\* C15: when the catalog call fails, check_schema_exists and
\* check_relation_exists return a false value (False, or None, which
\* branches as False does) and list_relations_without_caching returns an
\* empty sequence; none raises, and _get_one_catalog, which iterates the
\* listing, completes without an error.
C15_ReadsDegradeGracefully ==
    CatalogCallFailed =>
        /\ ret.outcome = "returned"
        /\ call.op \in {"check_schema_exists", "check_relation_exists"}
              => ret.result \in {"False", "None"}
        /\ call.op \in {"list_relations_without_caching", "_get_one_catalog"}
              => ret.listing = [none |-> FALSE, relations |-> <<>>]


\* The table-format property spells iceberg, in whatever case.
IsIcebergMarker(text) ==
    /\ Len(text) = 7
    /\ \A i \in 1..7 :
         text[i] \in {ICEBERG[i], <<"i", "c", "e", "b", "e", "r", "g">>[i]}

TypeServed ==
    /\ pc = "returned"
    /\ call.op = "get_table_type"
    /\ call.fault = "none"

\* C16: get_table_type of any descriptor: a table-format property that
\* spells iceberg in any case gives iceberg_table whatever the raw table
\* type; otherwise the result is the raw type as relation_type_map
\* normalizes it; a table that is not found gives None and nothing is
\* raised.
C16_GetTableType ==
    TypeServed =>
        /\ ret.outcome = "returned"
        /\ ~call.response.found => ret.result = "None"
        /\ call.response.found =>
             IF IsIcebergMarker(call.response.table_type)
             THEN ret.result = "iceberg_table"
             ELSE ret.result = CASE call.response.TableType
                                      \in {"EXTERNAL_TABLE", "MANAGED_TABLE"}
                                      -> "table"
                                 [] call.response.TableType = "VIRTUAL_VIEW"
                                      -> "view"
                                 [] OTHER -> "None"

C16_Witness ==
    /\ TypeServed
    /\ call.response.found
    /\ call.response.TableType = "GOVERNED"
    /\ call.response.table_type = <<"I", "c", "e", "b", "e", "r", "g">>
    /\ ret.result = "iceberg_table"

\* C17: in delta_create_table a catalog registration (CREATE TABLE USING
\* delta, or the CREATE EXTERNAL TABLE of the manifest-based table) has
\* taken effect only if the data write before it, of the same call,
\* completed successfully.
C17_RegistrationOnlyAfterWrite ==
    (pc = "returned" /\ call.op = "delta_create_table")
        => (ret.ran \cap {"create", "external"} # {} => "write" \in ret.ran)

\* Caller p is in a REPLACE: an insert_overwrite that found the table.
InReplace(p) ==
    /\ pc[p] # "idle"
    /\ call[p].op = "iceberg_write"
    /\ call[p].write_mode = "insert_overwrite"
    /\ ret[p].isTableExists

\* C14: from the lookup of an insert_overwrite that found the table until
\* the caller has taken its outcome, whether the call fails or not, the
\* table is in the catalog: no statement of the script leaves it absent.
C14_ReplaceKeepsTablePresent ==
    \A p \in Callers : InReplace(p) => table.present

C14_Witness ==
    \E p \in Callers :
        /\ InReplace(p)
        /\ pc[p] = "executing"
        /\ ret[p].ran = {"core"}
        /\ before[p].present
        /\ before[p].rows # ret[p].tmp
        /\ table.rows = ret[p].tmp

\* A REPLACE whose statement failed on the engine: the table is as it was.
C14_WitnessFailed ==
    \E p \in Callers :
        /\ InReplace(p)
        /\ pc[p] = "returned"
        /\ ret[p].failed = "core"
        /\ table = before[p]
        /\ table.present

\* Caller p's session runs the call of the expire procedure in this step.
ExpireRuns(p) ==
    /\ pc[p] = "executing"
    /\ call[p].op = "iceberg_expire_snapshots"
    /\ "expire" \notin ret[p].ran
    /\ "expire" \in ret'[p].ran

CreateRaced(p) ==
    /\ pc[p] = "returned"
    /\ call[p].op = "iceberg_write"
    /\ count(call[p].request) > 0
    /\ ~ret[p].isTableExists

Other(p) == CHOOSE q \in Callers : q # p

\* C19: when both callers' iceberg_write calls found the table absent (and
\* have rows to write), both scripts hold CREATE TABLE, whatever the table
\* has become by the time they run; the statement succeeds for one of them
\* at most; a caller whose CREATE TABLE the engine rejects gets
\* GlueIcebergWriteTableFailed; and where one succeeded, the table holds
\* that caller's result set and nothing of the other's.
C19_CreateRace ==
    (\A p \in Callers : CreateRaced(p)) =>
        /\ \A p \in Callers : ret[p].core_code.kind = "CREATE TABLE"
        /\ \E p \in Callers : "core" \notin ret[p].ran
        /\ \A p \in Callers :
              "core" \notin ret[p].ran =>
                  /\ ret[p].outcome = "raised"
                  /\ ret[p].tag = "GlueIcebergWriteTableFailed"
        /\ \A p \in Callers :
              "core" \in ret[p].ran =>
                  /\ table.present
                  /\ table.rows = iceberg_outputDf(call[p].request)
                  /\ Cardinality(table.snapshots) = 1

\* Both found the table absent and neither statement was made to fail: one
\* created the table, the other was rejected, and their result sets differ.
C19_Witness ==
    /\ \A p \in Callers : CreateRaced(p) /\ call[p].fault = "none"
    /\ \E p \in Callers :
          /\ "core" \in ret[p].ran
          /\ ret[Other(p)].failed = "core"
          /\ ret[Other(p)].tag = "GlueIcebergWriteTableFailed"
          /\ call[p].request # call[Other(p)].request
          /\ table.rows = iceberg_outputDf(call[p].request)
=============================================================================
